---- MODULE Spec2Model ----
(***************************************************************************)
(* Serial protocol engine of vscode-m5stack-mpy-v2:                        *)
(*   ProtocolHandler      frame construction, CRC16, frame recognition     *)
(*   BaseSerialConnection single-flight command channel with timeout       *)
(*   NodeSerialConnection transport (write/drain callbacks, data, close)   *)
(*   FileTransferManager  chunked upload on top of sendCommandWithRetry    *)
(*   DeviceManager        the public operations, one command each          *)
(*   M5StackClient        the registry of connections, one per port        *)
(* Buffers are sequences of bytes (0..255).  Promises are records of the   *)
(* ghost variable promise: who called resolve/reject, and how often.       *)
(***************************************************************************)
EXTENDS Integers, Sequences, FiniteSets, TLC

(***************************************************************************)
(* Bounds of the model                                                     *)
(***************************************************************************)
\* sendCommand calls made directly by a client (isOnline, listDirectory, ...)
MaxDirect == 2
\* size of a partial delivery of inbound bytes (a whole remainder is always allowed)
MaxPartial == 4
\* 'data' events one response is split into
MaxPieces == 2
\* longest file content handed to uploadFile
MaxContent == 2
\* largest options.chunkSize handed to uploadFile
MaxChunk == 2
\* longest enumerated data of a frame handed to the codec
MaxData == 2
\* Connection objects one M5StackClient creates
MaxConnects == 3

\* longest enumerated response text handed to parseDirectoryListing
MaxListing == 4
\* longest first part of a response delivered in two 'data' events at any split
MaxSplit == 8
\* number of files of an analysed project
MaxFiles == 3
\* longest dependencies array of a file
MaxDeps == 2

(***************************************************************************)
(* Bit operations on non-negative integers                                 *)
(***************************************************************************)
RECURSIVE Xor(_, _)
Xor(a, b) ==
  IF a = 0 THEN b
  ELSE IF b = 0 THEN a
  ELSE (((a % 2) + (b % 2)) % 2) + 2 * Xor(a \div 2, b \div 2)

(***************************************************************************)
(* types/index.ts                                                          *)
(***************************************************************************)
headerBytes == <<170, 171, 170>>
footerBytes == <<171, 204, 171>>
maxChunkSize == 256
DOWNLOAD_FILE == 6
IS_ONLINE == 0

(***************************************************************************)
(* ProtocolHandler                                                         *)
(***************************************************************************)
CRC_TABLE ==
  << 0, 52225, 55297, 5120, 61441, 15360, 10240, 58369,
     40961, 27648, 30720, 46081, 20480, 39937, 34817, 17408 >>

\* one iteration of calculateCrc's loop: the low nibble of ch, then the high one
crcStep(ch, crc) ==
  LET c1 == Xor(CRC_TABLE[(Xor(ch, crc) % 16) + 1], crc \div 16)
  IN Xor(CRC_TABLE[(Xor(ch \div 16, c1) % 16) + 1], c1 \div 16)

\* the loop over data[lo..hi] (1-based), started with crc; the range is folded
\* by halves, left half first (the test of left makes the left half's value
\* known before the right half starts)
RECURSIVE crcFold(_, _, _, _)
crcFold(data, lo, hi, crc) ==
  IF lo > hi THEN crc
  ELSE IF lo = hi THEN crcStep(data[lo], crc)
  ELSE LET mid == (lo + hi) \div 2
           left == crcFold(data, lo, mid, crc)
       IN IF left >= 0 THEN crcFold(data, mid + 1, hi, left) ELSE crc

\* calculateCrc with the initial value 0
calculateCrcZeroInit(data) == crcFold(data, 1, Len(data), 0)

calculateCrc(data) == crcFold(data, 1, Len(data), 65535)

createCommandBuffer(command, data) == <<command>> \o data

createFrame(commandBuffer) ==
  LET crc == calculateCrc(commandBuffer)
  IN headerBytes \o <<Len(commandBuffer) % 256>> \o commandBuffer
       \o <<(crc \div 256) % 256, crc % 256>> \o footerBytes

\* Buffer.slice(from, to) with 0-based, end-exclusive indices clipped to the buffer
slice(buf, from, to) ==
  LET f == IF from < 0 THEN 0 ELSE IF from > Len(buf) THEN Len(buf) ELSE from
      t == IF to < 0 THEN 0 ELSE IF to > Len(buf) THEN Len(buf) ELSE to
  IN IF t <= f THEN <<>> ELSE SubSeq(buf, f + 1, t)

isFrameComplete(buffer) ==
  /\ Len(buffer) >= 8
  /\ slice(buffer, 0, 3) = headerBytes
  /\ slice(buffer, Len(buffer) - 3, Len(buffer)) = footerBytes

\* the status byte examined by extractResponseData (buffer[4], 0-based)
statusByte(buffer) == buffer[5]

\* "ok" with the data portion, or "throw" (incomplete frame / non-zero status)
extractResponseData(buffer) ==
  IF ~isFrameComplete(buffer) THEN [kind |-> "throw", data |-> <<>>]
  ELSE IF statusByte(buffer) # 0 THEN [kind |-> "throw", data |-> <<>>]
  ELSE [kind |-> "ok", data |-> slice(buffer, 5, Len(buffer) - 5)]

\* the CRC embedded in a received frame against the CRC of its payload,
\* as parseFrame / validateFrame compute it
crcMatches(buffer) ==
  LET length == buffer[4]
      dataEnd == 4 + length
  IN /\ Len(buffer) >= dataEnd + 2
     /\ buffer[dataEnd + 1] * 256 + buffer[dataEnd + 2]
          = calculateCrc(slice(buffer, 4, dataEnd))

\* buffer[i] inside a bit operation: an index outside the buffer reads as 0
byteAt(buffer, i) == IF i >= 0 /\ i < Len(buffer) THEN buffer[i + 1] ELSE 0

null == [kind |-> "null", length |-> 0, command |-> -1, data |-> <<>>, crc |-> 0]

\* a parseFrame that leaves the command byte in the data
parseFrameKeepsCommand(buffer) ==
  IF ~isFrameComplete(buffer) THEN null
  ELSE LET length == buffer[4]
           dataEnd == 4 + length
           data == slice(buffer, 4, dataEnd)
           crcReceived == byteAt(buffer, dataEnd) * 256 + byteAt(buffer, dataEnd + 1)
       IN IF crcReceived # calculateCrc(data) THEN null
          ELSE [kind |-> "frame", length |-> length,
                command |-> IF data = <<>> THEN -1 ELSE data[1],
                data |-> data, crc |-> crcReceived]

\* parseFrame: null, or the frame's length, command, data and crc
parseFrame(buffer) ==
  IF ~isFrameComplete(buffer) THEN null
  ELSE LET length == buffer[4]
           dataEnd == 4 + length
           data == slice(buffer, 4, dataEnd)
           crcReceived == byteAt(buffer, dataEnd) * 256 + byteAt(buffer, dataEnd + 1)
       IN IF crcReceived # calculateCrc(data) THEN null
          ELSE [kind |-> "frame", length |-> length,
                command |-> IF data = <<>> THEN -1 ELSE data[1],
                data |-> slice(data, 1, Len(data)), crc |-> crcReceived]

(***************************************************************************)
(* State                                                                   *)
(***************************************************************************)
VARIABLES
  \* BaseSerialConnection
  isConnected, isBusy, receivedBuffer,
  currentResolve,    \* 0 = undefined, otherwise the id of the promise it settles
  currentReject,     \* 0 = undefined, otherwise the id of the promise it settles
  commandTimeout,    \* 0 = undefined, otherwise the handle of the timer
  \* the event loop: armed setTimeout handles (a handle is the id of the command
  \* whose sendCommand armed it)
  timers,
  \* NodeSerialConnection / the serial port
  written,           \* frames handed to serialPort.write, in order: [id, frame, chunk,
                     \* timeout], timeout being the delay of the timer armed with it
  pendingWrites,     \* ids whose write/drain callback has not run yet, in order
  inbound,           \* response bytes on their way to the host: [tag, bytes]
  answered,          \* ids of written frames the device has answered or never got
  port,              \* the SerialPort of the connection: "new", "open" or "closed"
  \* promises returned by sendCommand, indexed by command id
  promise,
  nextId,
  \* event emitter
  lastBusy,          \* argument of the latest 'busy' event ("none" before the first)
  errorListener,     \* an 'error' event of the connection is handled without throwing
  crashed,           \* an exception escaped an event-loop callback
  \* history: how the channel ended the last command, and whose bytes the accumulator holds
  lastEnd, bufTags,
  \* callers
  direct,            \* number of direct sendCommand calls made so far
  rt,                \* the activation of sendCommandWithRetry
  up,                \* the activation of FileTransferManager.uploadFile
  chunkLog,          \* chunks uploadFile has generated so far: [index, flag, data]
  dm,                \* the activation of a DeviceManager operation
  codec,             \* a ProtocolHandler evaluation: encode, then decode
  listing,           \* a parseDirectoryListing evaluation: its input and its entries
  analysis,          \* a getExecutionOrder evaluation: its graph, entry file and order
  \* M5StackClient
  connections,       \* the registry: port -> index of a Connection in created, 0 = none
  created            \* the Connection objects made by connect, in order

chanVars == <<isBusy, receivedBuffer, currentResolve, currentReject, commandTimeout,
              timers, lastBusy, bufTags>>
portVars == <<written, pendingWrites, inbound, answered, port>>
sideVars == <<dm, codec, listing, analysis, connections, created>>
callerVars == <<direct, rt, up, chunkLog, sideVars>>
vars == <<isConnected, chanVars, portVars, promise, nextId, errorListener, crashed,
          lastEnd, callerVars>>

NoEnd ==
  [id |-> 0, how |-> "none", tags |-> {}, crcOk |-> TRUE, frame |-> <<>>,
   prevId |-> 0, prevHow |-> "none"]

NewPromise == [state |-> "pending", value |-> <<>>, calls |-> 0]

\* resolve(value) / reject(error) of promise id: the first call decides the state,
\* every call is counted
settle(pr, id, st, val) ==
  [pr EXCEPT ![id] = [state |-> IF @.state = "pending" THEN st ELSE @.state,
                      value |-> IF @.state = "pending" THEN val ELSE @.value,
                      calls |-> @.calls + 1]]

\* the command of a client call and the frame sendCommandInternal builds for it
frameOf(command) == createFrame(createCommandBuffer(command.code, command.data))

\* A continuation is queued as a microtask: an await whose promise is settled, or
\* the rest of a synchronous call chain.  It runs before any timer, port or
\* client event.
Microtask ==
  (rt.pc = "loop")
    \/ (rt.pc = "await" /\ promise[rt.id].state # "pending")
    \/ (up.pc = "wait" /\ rt.owner = "upload" /\ rt.pc \in {"returned", "threw"})
    \/ (dm.pc \in {"await", "read", "exec"} /\ promise[dm.id].state # "pending")

\* a new task of the event loop may start
MacroTask == ~crashed /\ ~Microtask

(***************************************************************************)
(* BaseSerialConnection                                                    *)
(***************************************************************************)
\* sendCommandCheck without the busy check
sendCommandCheckNoBusy(connected, busy) ==
  IF ~connected THEN "CommunicationError" ELSE "accept"

\* the checks at the top of sendCommand
sendCommandCheck(connected, busy) ==
  IF ~connected THEN "CommunicationError"
  ELSE IF busy THEN "DeviceBusyError"
  ELSE "accept"

\* DEFAULT_CONFIG.defaultTimeout, the options.timeout of a connection made
\* without options
defaultTimeout == 5000

\* const timeout = command.timeout || this.options.timeout (0: no timeout given)
timeoutOf(command) == IF command.timeout # 0 THEN command.timeout ELSE defaultTimeout

\* sendCommand(command): the call creates promise nextId.  A rejected check throws
\* out of the async function; otherwise the executor runs synchronously, down to
\* serialPort.write inside writeRaw.  chunk is the index of the upload chunk the
\* command carries (-1: none), kept in the log of written frames.
sendCommand(command, chunk) ==
  LET id == nextId
      check == sendCommandCheck(isConnected, isBusy)
  IN /\ nextId' = nextId + 1
     /\ UNCHANGED lastEnd
     /\ IF check # "accept"
        THEN /\ promise' = settle(Append(promise, NewPromise), id, "rejected", check)
             /\ UNCHANGED <<chanVars, written, pendingWrites>>
        ELSE /\ promise' = Append(promise, NewPromise)
             /\ isBusy' = TRUE
             /\ currentResolve' = id
             /\ currentReject' = id
             /\ receivedBuffer' = <<>>
             /\ bufTags' = {}
             /\ commandTimeout' = id
             /\ timers' = timers \cup {id}
             /\ written' = Append(written, [id |-> id, frame |-> frameOf(command),
                                           chunk |-> chunk,
                                           timeout |-> timeoutOf(command)])
             /\ pendingWrites' = Append(pendingWrites, id)
             /\ UNCHANGED lastBusy

\* clearCommandState that leaves isBusy as it is
clearCommandStateKeepsBusy(armed) ==
  /\ isBusy' = isBusy
  /\ receivedBuffer' = <<>>
  /\ bufTags' = {}
  /\ timers' = IF commandTimeout # 0 THEN armed \ {commandTimeout} ELSE armed
  /\ commandTimeout' = 0
  /\ currentResolve' = 0
  /\ currentReject' = 0
  /\ lastBusy' = "false"

\* clearCommandState that leaves the receive accumulator as it is
clearCommandStateKeepsBuffer(armed) ==
  /\ isBusy' = FALSE
  /\ receivedBuffer' = receivedBuffer
  /\ bufTags' = bufTags
  /\ timers' = IF commandTimeout # 0 THEN armed \ {commandTimeout} ELSE armed
  /\ commandTimeout' = 0
  /\ currentResolve' = 0
  /\ currentReject' = 0
  /\ lastBusy' = "false"

\* clearCommandState without clearTimeout
clearCommandStateKeepsTimer(armed) ==
  /\ isBusy' = FALSE
  /\ receivedBuffer' = <<>>
  /\ bufTags' = {}
  /\ timers' = armed
  /\ commandTimeout' = 0
  /\ currentResolve' = 0
  /\ currentReject' = 0
  /\ lastBusy' = "false"

\* clearCommandState, with the timers still armed when it is called
clearCommandState(armed) ==
  /\ isBusy' = FALSE
  /\ receivedBuffer' = <<>>
  /\ bufTags' = {}
  /\ timers' = IF commandTimeout # 0 THEN armed \ {commandTimeout} ELSE armed
  /\ commandTimeout' = 0
  /\ currentResolve' = 0
  /\ currentReject' = 0
  /\ lastBusy' = "false"

\* handleCommandSuccess: the resolver is read after clearCommandState
handleCommandSuccess(data, armed) ==
  /\ clearCommandState(armed)
  /\ promise' = IF currentResolve' # 0
                THEN settle(promise, currentResolve', "resolved", data)
                ELSE promise
  /\ UNCHANGED crashed

\* handleCommandError: the rejecter is read after clearCommandState; emit('error')
\* throws when nothing handles the event.  catcher is the id whose
\* sendCommandInternal(...).catch(reject) receives that exception, 0 when the
\* handler runs in a timer or stream callback.
handleCommandError(error, armed, catcher) ==
  /\ clearCommandState(armed)
  /\ promise' =
       LET p1 == IF currentReject' # 0
                 THEN settle(promise, currentReject', "rejected", error)
                 ELSE promise
       IN IF ~errorListener /\ catcher # 0
          THEN settle(p1, catcher, "rejected", error)
          ELSE p1
  /\ crashed' = (~errorListener /\ catcher = 0)

\* history of the pending command (the one whose resolver is stored)
markEnded(how, tags, frame) ==
  IF currentResolve # 0
  THEN [id |-> currentResolve, how |-> how, tags |-> tags,
        crcOk |-> (frame = <<>> \/ crcMatches(frame)), frame |-> frame,
        prevId |-> lastEnd.id, prevHow |-> lastEnd.how]
  ELSE lastEnd

\* setTimeout callback of sendCommand: handleCommandTimeout
TimerFire ==
  /\ MacroTask
  /\ \E t \in timers :
       /\ handleCommandError("TimeoutError", timers \ {t}, 0)
       /\ lastEnd' = markEnded("timeout", {}, <<>>)
  /\ UNCHANGED <<isConnected, portVars, nextId, errorListener, callerVars>>

\* completion of writeRaw inside sendCommandInternal: drained, or write/drain error
WriteDone ==
  /\ MacroTask
  /\ pendingWrites # <<>>
  /\ pendingWrites' = Tail(pendingWrites)
  /\ LET id == Head(pendingWrites)
     IN \E ok \in BOOLEAN :
          IF ok
          THEN /\ lastBusy' = "true"
               /\ UNCHANGED <<isBusy, receivedBuffer, currentResolve, currentReject,
                              commandTimeout, timers, bufTags, promise, crashed, lastEnd,
                              answered>>
          ELSE /\ id \notin answered
               /\ handleCommandError("CommunicationError", timers, id)
               /\ lastEnd' = markEnded("writeFail", {}, <<>>)
               /\ answered' = answered \cup {id}
  /\ UNCHANGED <<isConnected, written, inbound, port, nextId, errorListener,
                 callerVars>>

\* onDataReceived(chunk) with processReceivedFrame; tag names the command whose
\* response the bytes belong to
onDataReceived(chunk, tag) ==
  LET buffer == receivedBuffer \o chunk
      tags == bufTags \cup {tag}
  IN IF isFrameComplete(buffer)
     THEN LET r == extractResponseData(buffer)
          IN IF r.kind = "ok"
             THEN /\ handleCommandSuccess(r.data, timers)
                  /\ lastEnd' = markEnded("success", tags, buffer)
             ELSE /\ handleCommandError("CommunicationError", timers, 0)
                  /\ lastEnd' = markEnded("responseError", tags, buffer)
     ELSE /\ receivedBuffer' = buffer
          /\ bufTags' = tags
          /\ UNCHANGED <<isBusy, currentResolve, currentReject, commandTimeout, timers,
                         lastBusy, promise, crashed, lastEnd>>

\* onConnected: the port's 'open' event
onConnected ==
  isConnected' = TRUE

\* onDisconnected: the port's 'close' event
onDisconnected ==
  /\ isConnected' = FALSE
  /\ clearCommandState(timers)
  /\ UNCHANGED <<promise, crashed>>

\* onError: the port's 'error' event
onError ==
  IF ~errorListener
  THEN /\ crashed' = TRUE
       /\ UNCHANGED <<chanVars, promise, lastEnd>>
  ELSE IF isBusy
       THEN /\ handleCommandError("TransportError", timers, 0)
            /\ lastEnd' = markEnded("transportError", {}, <<>>)
       ELSE UNCHANGED <<chanVars, promise, crashed, lastEnd>>

(***************************************************************************)
(* The device and the serial line                                          *)
(***************************************************************************)
done == <<100, 111, 110, 101>>

\* replace the low CRC byte of a frame by a different value
corruptCrc(frame) ==
  [frame EXCEPT ![Len(frame) - 3] = (@ + 1) % 256]

RespDone == createFrame(<<0>> \o done)
RespStatus == createFrame(<<1>>)
RespBadCrc == corruptCrc(RespDone)
Responses == {RespDone, RespStatus, RespBadCrc}

\* the device answers a frame it was sent with one of responses; it takes the
\* frames in the order sent
respond(responses) ==
  /\ MacroTask
  /\ \E i \in 1..Len(written) :
       /\ \A a \in answered : a < written[i].id
       /\ answered' = answered \cup {written[i].id}
       /\ \E r \in responses :
            inbound' = Append(inbound, [tag |-> written[i].id, bytes |-> r, piece |-> 1])
  /\ UNCHANGED <<isConnected, chanVars, written, pendingWrites, port, promise, nextId,
                 errorListener, crashed, lastEnd, callerVars>>

DeviceRespond == respond(Responses)

\* the port's 'data' event: the next k bytes of the line, a whole remainder or a
\* part of one of the given sizes
deliver(sizes) ==
  /\ MacroTask
  /\ isConnected
  /\ inbound # <<>>
  /\ LET head == Head(inbound)
         n == Len(head.bytes)
     IN \E k \in 1..n :
          /\ k = n \/ (k \in sizes /\ head.piece < MaxPieces)
          /\ onDataReceived(SubSeq(head.bytes, 1, k), head.tag)
          /\ inbound' = IF k = n THEN Tail(inbound)
                        ELSE <<[tag |-> head.tag, bytes |-> SubSeq(head.bytes, k + 1, n),
                                piece |-> head.piece + 1]>>
                               \o Tail(inbound)
  /\ UNCHANGED <<isConnected, written, pendingWrites, answered, port, nextId,
                 errorListener, callerVars>>

Deliver == deliver({MaxPartial})

\* a response whose data holds the footer bytes: status 0, AB CC AB, "x"
RespFooter == createFrame(<<0>> \o footerBytes \o <<120>>)
SplitResponses == {RespDone, RespFooter}

DeviceRespondFooter == respond(SplitResponses)

\* 'data' events that split a response after any of its first MaxSplit bytes
DeliverSplit == deliver(1..MaxSplit)

\* NodeSerialConnection.connect: the port port
Open ==
  /\ MacroTask
  /\ ~isConnected
  /\ port = "new"
  /\ port' = "open"
  /\ onConnected
  /\ UNCHANGED <<chanVars, written, pendingWrites, inbound, answered, promise, nextId,
                 errorListener, crashed, lastEnd, callerVars>>

\* the port closes (disconnect() or the device is unplugged)
Close ==
  /\ MacroTask
  /\ isConnected
  /\ onDisconnected
  /\ lastEnd' = markEnded("disconnect", {}, <<>>)
  /\ inbound' = <<>>
  /\ port' = "closed"
  /\ UNCHANGED <<written, pendingWrites, answered, nextId, errorListener, callerVars>>

\* the port reports an error
PortError ==
  /\ MacroTask
  /\ port = "open"
  /\ onError
  /\ UNCHANGED <<isConnected, portVars, nextId, errorListener, callerVars>>

(***************************************************************************)
(* Clients                                                                 *)
(***************************************************************************)
\* DeviceManager.isOnline's command
onlineCommand == [code |-> IS_ONLINE, data |-> <<>>, timeout |-> 0]

(***************************************************************************)
(* BaseSerialConnection.sendCommandWithRetry                               *)
(***************************************************************************)
\* default of the maxRetries parameter
defaultMaxRetries == 3

\* a loop condition that admits one more iteration
retryLoopCondOneMore(attempt, maxRetries) == attempt <= maxRetries + 1

\* the for loop's condition
retryLoopCond(attempt, maxRetries) == attempt <= maxRetries

\* a break that forgets DeviceBusyError
noRetryTimeoutOnly(error) == error = "TimeoutError"

\* "Don't retry certain errors"
noRetry(error) == error \in {"DeviceBusyError", "TimeoutError"}

\* the value of "throw lastError!": the error caught last, as it is; it wraps
\* nothing and has no attempts field (-1)
thrownError(lastError, calls) == [name |-> lastError, wraps |-> "none", attempts |-> -1]

notThrown == [name |-> "none", wraps |-> "none", attempts |-> -1]

rtIdle ==
  [pc |-> "idle", owner |-> "none", command |-> onlineCommand, chunk |-> -1,
   max |-> 0, attempt |-> 0, id |-> 0, calls |-> 0, error |-> "none", value |-> <<>>,
   thrown |-> notThrown]

\* entry of sendCommandWithRetry(command, maxRetries)
startRetry(owner, command, chunk, maxRetries) ==
  [rtIdle EXCEPT !.pc = "loop", !.owner = owner, !.command = command,
                 !.chunk = chunk, !.max = maxRetries]

\* a client calls sendCommandWithRetry(command) with the default maxRetries
RetryStart ==
  /\ MacroTask
  /\ rt.pc = "idle"
  /\ rt' = startRetry("client", onlineCommand, -1, defaultMaxRetries)
  /\ UNCHANGED <<isConnected, chanVars, portVars, promise, nextId, errorListener,
                 crashed, lastEnd, direct, up, chunkLog, sideVars>>

\* head of the for loop: the next sendCommand call, or "throw lastError"
RetryLoop ==
  /\ ~crashed
  /\ rt.pc = "loop"
  /\ IF retryLoopCond(rt.attempt, rt.max)
     THEN /\ sendCommand(rt.command, rt.chunk)
          /\ rt' = [rt EXCEPT !.pc = "await", !.id = nextId, !.calls = @ + 1]
     ELSE /\ rt' = [rt EXCEPT !.pc = "threw", !.thrown = thrownError(rt.error, rt.calls)]
          /\ UNCHANGED <<chanVars, written, pendingWrites, promise, nextId, lastEnd>>
  /\ UNCHANGED <<isConnected, inbound, answered, port, errorListener, crashed,
                 direct, up, chunkLog, sideVars>>

\* the await of sendCommand returns or throws into the catch block
RetryResume ==
  /\ ~crashed
  /\ rt.pc = "await"
  /\ promise[rt.id].state # "pending"
  /\ LET p == promise[rt.id]
     IN rt' = IF p.state = "resolved"
              THEN [rt EXCEPT !.pc = "returned", !.value = p.value]
              ELSE IF noRetry(p.value)
              THEN [rt EXCEPT !.pc = "threw", !.error = p.value,
                              !.thrown = thrownError(p.value, rt.calls)]
              ELSE IF rt.attempt < rt.max
              THEN [rt EXCEPT !.pc = "delay", !.error = p.value]
              ELSE [rt EXCEPT !.pc = "loop", !.attempt = @ + 1, !.error = p.value]
  /\ UNCHANGED <<isConnected, chanVars, portVars, promise, nextId, errorListener,
                 crashed, lastEnd, direct, up, chunkLog, sideVars>>

\* the wait before a retry is over
RetryDelay ==
  /\ MacroTask
  /\ rt.pc = "delay"
  /\ rt' = [rt EXCEPT !.pc = "loop", !.attempt = @ + 1]
  /\ UNCHANGED <<isConnected, chanVars, portVars, promise, nextId, errorListener,
                 crashed, lastEnd, direct, up, chunkLog, sideVars>>

(***************************************************************************)
(* FileTransferManager                                                     *)
(***************************************************************************)
\* maxRetries that uploadSingleChunk passes to sendCommandWithRetry
chunkMaxRetries == 2
\* default of options.retryAttempts
defaultRetryAttempts == 3

\* the file name of the transfers: "a"
filename == <<97>>

\* the characters of /^[a-zA-Z0-9._/-]+$/
nameChars == (97..122) \cup (65..90) \cup (48..57) \cup {46, 95, 47, 45}

\* FileTransferManager.validateFilename(name).valid
validateFilename(name) ==
  IF Len(name) > 28 THEN FALSE
  ELSE IF ~(Len(name) >= 1 /\ \A k \in 1..Len(name) : name[k] \in nameChars) THEN FALSE
  ELSE IF name[1] = 47 /\ Len(name) = 1 THEN FALSE
  ELSE TRUE

\* Buffer.includes for the completion marker
includes(data, needle) ==
  \E i \in 1..(Len(data) - Len(needle) + 1) :
    SubSeq(data, i, i + Len(needle) - 1) = needle

ceilDiv(a, b) == (a + b - 1) \div b

min(a, b) == IF a < b THEN a ELSE b

\* options.chunkSize || DEFAULT_CONFIG.maxChunkSize
chunkSizeOf(option) == IF option = 0 THEN maxChunkSize ELSE option

\* options.retryAttempts || 3
retryAttemptsOf(option) == IF option = 0 THEN defaultRetryAttempts ELSE option

\* chunk i of the multi-chunk loop
chunkOf(content, chunkSize, i) ==
  slice(content, i * chunkSize, min(i * chunkSize + chunkSize, Len(content)))

flagOf(i) == IF i = 0 THEN 1 ELSE 0

\* the command uploadSingleChunk builds
\* timeout of the command uploadSingleChunk builds
chunkTimeout == 10000

chunkCommand(name, content, flag) ==
  LET commandBuffer == <<DOWNLOAD_FILE>> \o name \o <<0>> \o <<flag>> \o content
  IN [code |-> DOWNLOAD_FILE, data |-> slice(commandBuffer, 1, Len(commandBuffer)),
      timeout |-> chunkTimeout]

\* an uploadSingleChunk that never throws
chunkAckedAlways(r) == r.pc \in {"returned", "threw"}

\* uploadSingleChunk returns normally: sendCommandWithRetry returned a response
\* that contains "done"
chunkAcked(r) == r.pc = "returned" /\ includes(r.value, done)

NoMessage == [file |-> <<>>, chunk |-> 0, total |-> 0]

\* a failure text that leaves the chunk out
failureMessageNoChunk(name, i, totalChunks) ==
  [file |-> name, chunk |-> 0, total |-> totalChunks]

\* what the text "Failed to upload chunk ${i + 1}/${totalChunks} for ${filename}" names
failureMessage(name, i, totalChunks) ==
  [file |-> name, chunk |-> i + 1, total |-> totalChunks]

\* the FileTransferProgress handed to options.onProgress
progressOf(bytes, total, chunkIndex, totalChunks) ==
  [bytesTransferred |-> bytes, totalBytes |-> total, chunkIndex |-> chunkIndex,
   totalChunks |-> totalChunks]

upIdle ==
  [pc |-> "idle", filename |-> <<>>, content |-> <<>>, chunkSize |-> 0,
   retryAttempts |-> 0, multi |-> FALSE, totalChunks |-> 0, i |-> 0, attempt |-> 0,
   uploadedBytes |-> 0, error |-> "none", message |-> NoMessage, progress |-> <<>>,
   overwrite |-> TRUE]

\* inputs of uploadFile
content(n) == [k \in 1..n |-> 64 + (k % 64)]
Contents == {content(n) : n \in 1..MaxContent}
ChunkSizeOptions == 1..MaxChunk
RetryAttemptOptions == {1}

\* a chunk loop that admits one more attempt
chunkLoopCondOneMore(attempt, retryAttempts) == attempt <= retryAttempts + 1

\* the condition of the retry loop of one chunk
chunkLoopCond(attempt, retryAttempts) == attempt <= retryAttempts

\* a flag that is 0x01 whatever overwrite is
overwriteFlagAlwaysOne(overwrite) == 1

\* overwrite ? 0x01 : 0x00
overwriteFlag(overwrite) == IF overwrite THEN 1 ELSE 0

\* uploadFile(name, c, overwrite, options) up to its first await; cs and ra are
\* options.chunkSize and options.retryAttempts (0: not given).  Only the
\* single-chunk branch reads overwrite: up.overwrite keeps it for that branch.
uploadFile(name, c, overwrite, cs, ra) ==
  LET chunkSize == chunkSizeOf(cs)
      multi == ~(Len(c) <= chunkSize)
      first == IF multi THEN chunkOf(c, chunkSize, 0) ELSE c
      flag == IF multi THEN flagOf(0) ELSE overwriteFlag(overwrite)
  IN /\ up' = [upIdle EXCEPT !.pc = "wait", !.filename = name, !.content = c,
                             !.chunkSize = chunkSize,
                             !.retryAttempts = retryAttemptsOf(ra),
                             !.multi = multi,
                             !.overwrite = IF multi THEN TRUE ELSE overwrite,
                             !.totalChunks = IF multi THEN ceilDiv(Len(c), chunkSize)
                                             ELSE 1]
     /\ rt' = startRetry("upload", chunkCommand(name, first, flag), 0, chunkMaxRetries)
     /\ chunkLog' = <<[index |-> 0, flag |-> flag, data |-> first]>>

\* a client calls uploadFile
UploadStart ==
  /\ MacroTask
  /\ up.pc = "idle"
  /\ rt.pc = "idle"
  /\ \E c \in Contents, cs \in ChunkSizeOptions, overwrite \in BOOLEAN,
        ra \in RetryAttemptOptions :
       uploadFile(filename, c, overwrite, cs, ra)
  /\ UNCHANGED <<isConnected, chanVars, portVars, promise, nextId, errorListener,
                 crashed, lastEnd, direct, sideVars>>

\* uploadSingleChunk has returned or thrown: the rest of the loop body
UploadResume ==
  /\ ~crashed
  /\ up.pc = "wait"
  /\ rt.owner = "upload"
  /\ rt.pc \in {"returned", "threw"}
  /\ LET ok == chunkAcked(rt)
         err == IF rt.pc = "threw" THEN rt.error ELSE "CommunicationError"
         next == up.i + 1
         chunk == chunkOf(up.content, up.chunkSize, up.i)
         nextChunk == chunkOf(up.content, up.chunkSize, next)
         total == Len(up.content)
     IN IF ~up.multi
        THEN /\ up' = IF ok
                      THEN [up EXCEPT !.pc = "done", !.uploadedBytes = total, !.i = 1,
                                      !.progress = Append(@, progressOf(total, total, 1, 1))]
                      ELSE [up EXCEPT !.pc = "failed", !.error = err]
             /\ rt' = rtIdle
             /\ UNCHANGED chunkLog
        ELSE IF ok
        THEN LET bytes == up.uploadedBytes + Len(chunk)
                 report == Append(up.progress,
                                  progressOf(bytes, total, next, up.totalChunks))
             IN IF next < up.totalChunks
                THEN /\ up' = [up EXCEPT !.i = next, !.attempt = 0,
                                         !.uploadedBytes = bytes, !.progress = report]
                     /\ rt' = startRetry("upload",
                                         chunkCommand(up.filename, nextChunk, flagOf(next)),
                                         next, chunkMaxRetries)
                     /\ chunkLog' = Append(chunkLog, [index |-> next, flag |-> flagOf(next),
                                                      data |-> nextChunk])
                ELSE /\ up' = [up EXCEPT !.pc = "done", !.i = next,
                                         !.uploadedBytes = bytes, !.progress = report]
                     /\ rt' = rtIdle
                     /\ UNCHANGED chunkLog
        ELSE /\ up' = IF chunkLoopCond(up.attempt + 1, up.retryAttempts)
                      THEN [up EXCEPT !.pc = "delay", !.error = err]
                      ELSE [up EXCEPT !.pc = "failed", !.error = "CommunicationError",
                                      !.message = failureMessage(up.filename, up.i,
                                                                 up.totalChunks)]
             /\ rt' = rtIdle
             /\ UNCHANGED chunkLog
  /\ UNCHANGED <<isConnected, chanVars, portVars, promise, nextId, errorListener,
                 crashed, lastEnd, direct, sideVars>>

\* the backoff delay of a chunk is over: uploadSingleChunk is called again
UploadDelay ==
  /\ MacroTask
  /\ up.pc = "delay"
  /\ up' = [up EXCEPT !.pc = "wait", !.attempt = @ + 1]
  /\ rt' = startRetry("upload",
                      chunkCommand(up.filename, chunkOf(up.content, up.chunkSize, up.i),
                                   flagOf(up.i)),
                      up.i, chunkMaxRetries)
  /\ UNCHANGED <<isConnected, chanVars, portVars, promise, nextId, errorListener,
                 crashed, lastEnd, direct, chunkLog, sideVars>>

\* a client calls sendCommand directly
DirectSend(limit) ==
  /\ MacroTask
  /\ direct < limit
  /\ direct' = direct + 1
  /\ sendCommand(onlineCommand, -1)
  /\ UNCHANGED <<isConnected, inbound, answered, port, errorListener, crashed, rt, up, chunkLog, sideVars>>

(***************************************************************************)
(* DeviceManager                                                           *)
(***************************************************************************)
GET_INFO == 1
EXEC == 2
LIST_DIR == 3
GET_FILE == 5
REMOVE_FILE == 7
SET_WIFI == 8

\* the operations that talk to the connection themselves
SingleOps == {"isOnline", "getDeviceInfo", "listDirectory", "readFile", "deleteFile",
              "executeCode", "setWifiConfig"}

\* arguments of the operations: the path "a", the default directory "/flash",
\* the code "1", the ssid "s" and the password "p"
flash == <<47, 102, 108, 97, 115, 104>>
wifiConfig(ssid, password) == ssid \o <<10>> \o password

\* the Command each operation builds
commandOf(op) ==
  CASE op = "isOnline" -> [code |-> IS_ONLINE, data |-> <<>>, timeout |-> 0]
    [] op = "getDeviceInfo" -> [code |-> GET_INFO, data |-> <<>>, timeout |-> 0]
    [] op = "listDirectory" -> [code |-> LIST_DIR, data |-> flash, timeout |-> 0]
    [] op = "readFile" -> [code |-> GET_FILE, data |-> filename, timeout |-> 0]
    [] op = "deleteFile" -> [code |-> REMOVE_FILE, data |-> filename, timeout |-> 0]
    [] op = "executeCode" -> [code |-> EXEC, data |-> <<49>>, timeout |-> 0]
    [] op = "setWifiConfig" -> 
         [code |-> SET_WIFI, data |-> wifiConfig(<<115>>, <<112>>),
          timeout |-> 0]

dmIdle ==
  [pc |-> "idle", op |-> "none", id |-> 0, calls |-> 0, ret |-> "none",
   exitCode |-> -1, error |-> "none"]

\* an operation that starts over when its command is rejected
managerResumeRetrying(d, p) ==
  IF p.state = "resolved"
  THEN [d EXCEPT !.pc = "returned", !.ret = "value"]
  ELSE [d EXCEPT !.pc = "idle"]

\* the code after "await this.connection.sendCommand(command)" of each operation,
\* for the settled promise p
managerResume(d, p) ==
  IF p.state = "resolved"
  THEN CASE d.op = "isOnline" ->
              [d EXCEPT !.pc = "returned",
                        !.ret = IF p.value = done THEN "true" ELSE "false"]
         [] d.op \in {"getDeviceInfo", "listDirectory", "readFile"} ->
              [d EXCEPT !.pc = "returned", !.ret = "value"]
         [] d.op \in {"deleteFile", "setWifiConfig"} ->
              IF p.value # done
              THEN [d EXCEPT !.pc = "threw", !.error = "CommunicationError"]
              ELSE [d EXCEPT !.pc = "returned", !.ret = "void"]
         [] d.op = "executeCode" ->
              [d EXCEPT !.pc = "returned", !.ret = "result",
                        !.exitCode = IF includes(p.value, done) THEN 0 ELSE 1]
  ELSE CASE d.op = "isOnline" -> [d EXCEPT !.pc = "returned", !.ret = "false"]
         [] d.op = "readFile" -> [d EXCEPT !.pc = "threw", !.error = "FileNotFoundError"]
         [] d.op = "executeCode" ->
              [d EXCEPT !.pc = "returned", !.ret = "result", !.exitCode = 1,
                        !.error = p.value]
         [] OTHER -> [d EXCEPT !.pc = "threw", !.error = p.value]

\* a client calls one of the single-command operations
ManagerCall ==
  /\ MacroTask
  /\ dm.pc = "idle"
  /\ up.pc = "idle"
  /\ \E op \in SingleOps :
       /\ sendCommand(commandOf(op), -1)
       /\ dm' = [dm EXCEPT !.pc = "await", !.op = op, !.id = nextId, !.calls = @ + 1]
  /\ UNCHANGED <<isConnected, inbound, answered, port, errorListener, crashed, direct,
                 rt, up, chunkLog, codec, listing, analysis, connections, created>>

\* the await of the operation's sendCommand returns or throws
ManagerResume ==
  /\ ~crashed
  /\ dm.pc = "await"
  /\ promise[dm.id].state # "pending"
  /\ dm' = managerResume(dm, promise[dm.id])
  /\ UNCHANGED <<isConnected, chanVars, portVars, promise, nextId, errorListener,
                 crashed, lastEnd, direct, rt, up, chunkLog, codec, listing, analysis, connections, created>>

\* the operations that read a file and then execute it
ExecOps == {"executeFile", "executeProject"}

\* the Command executeCode builds for the code it is given
execCommand(code) == [code |-> EXEC, data |-> code, timeout |-> 0]

\* a client calls executeFile(path) or executeProject(entryFile): the call runs
\* into readFile and its sendCommand
ExecuteCall ==
  /\ MacroTask
  /\ dm.pc = "idle"
  /\ up.pc = "idle"
  /\ \E op \in ExecOps :
       /\ sendCommand(commandOf("readFile"), -1)
       /\ dm' = [dm EXCEPT !.pc = "read", !.op = op, !.id = nextId, !.calls = @ + 1]
  /\ UNCHANGED <<isConnected, inbound, answered, port, errorListener, crashed, direct,
                 rt, up, chunkLog, codec, listing, analysis, connections, created>>

\* the await of readFile returns the content, which goes to executeCode and its
\* sendCommand, or it throws and the catch block throws FileNotFoundError; the
\* await of executeCode returns its result
ExecuteResume ==
  /\ ~crashed
  /\ dm.pc \in {"read", "exec"}
  /\ promise[dm.id].state # "pending"
  /\ LET p == promise[dm.id]
     IN IF dm.pc = "read" /\ p.state = "resolved"
        THEN /\ sendCommand(execCommand(p.value), -1)
             /\ dm' = [dm EXCEPT !.pc = "exec", !.id = nextId, !.calls = @ + 1]
        ELSE /\ dm' = IF dm.pc = "read"
                      THEN [dm EXCEPT !.pc = "threw", !.error = "FileNotFoundError"]
                      ELSE [managerResume([dm EXCEPT !.op = "executeCode"], p)
                              EXCEPT !.op = dm.op]
             /\ UNCHANGED <<chanVars, written, pendingWrites, promise, nextId, lastEnd>>
  /\ UNCHANGED <<isConnected, inbound, answered, port, errorListener, crashed, direct,
                 rt, up, chunkLog, codec, listing, analysis, connections, created>>

\* retryAttempts of writeFile's transferOptions
writeFileRetryAttempts == 3

\* inputs of writeFile: "a", a name of 29 characters, and "a "
longName == [k \in 1..29 |-> 97]
Filenames == {filename, longName, <<97, 32>>}
FileContents == {content(1), content(maxChunkSize)}

\* a client calls writeFile(path, content, options): uploadFile with chunkSize
\* DEFAULT_CONFIG.maxChunkSize and retryAttempts 3
WriteFile ==
  /\ MacroTask
  /\ dm.pc = "idle"
  /\ up.pc = "idle"
  /\ rt.pc = "idle"
  /\ dm' = [dmIdle EXCEPT !.pc = "upload", !.op = "writeFile"]
  /\ \E path \in Filenames, c \in FileContents, overwrite \in BOOLEAN :
       uploadFile(path, c, overwrite, maxChunkSize, writeFileRetryAttempts)
  /\ UNCHANGED <<isConnected, chanVars, portVars, promise, nextId, errorListener,
                 crashed, lastEnd, direct, codec, listing, analysis, connections, created>>

\* the device of the manager's clients also answers text other than "done":
\* "xdone" and "x"
RespOther == createFrame(<<0, 120>> \o done)
RespNone == createFrame(<<0, 120>>)
ManagerResponses == {RespDone, RespOther, RespNone, RespStatus}

DeviceRespondText == respond(ManagerResponses)

(***************************************************************************)
(* ProtocolHandler as a codec: createFrame, then parseFrame                *)
(***************************************************************************)
CommandCodes == 0..8

\* the ASCII digits "123456789"
digits == [k \in 1..9 |-> 48 + k]

\* n bytes that run through all byte values
fill(n) == [k \in 1..n |-> (k * 7) % 256]

RECURSIVE seqsOver(_, _)
seqsOver(bytes, n) ==
  IF n = 0 THEN {<<>>}
  ELSE LET shorter == seqsOver(bytes, n - 1)
       IN shorter \cup {Append(d, b) : d \in {x \in shorter : Len(x) = n - 1}, b \in bytes}

\* data handed to createCommandBuffer: short data, a known vector and the longest
\* data below 256 bytes
Payloads == seqsOver({0, 171, 255}, MaxData) \cup {digits, fill(254), fill(255)}

codecIdle ==
  [pc |-> "idle", code |-> 0, data |-> <<>>, crc |-> 0, frame |-> <<>>, parsed |-> null]

\* createFrame(createCommandBuffer(code, data)), and calculateCrc(data)
Encode ==
  /\ codec.pc = "idle"
  /\ \E code \in CommandCodes, data \in Payloads :
       codec' = [codecIdle EXCEPT !.pc = "encoded", !.code = code, !.data = data,
                                  !.crc = calculateCrc(data),
                                  !.frame = createFrame(createCommandBuffer(code, data))]
  /\ UNCHANGED <<isConnected, chanVars, portVars, promise, nextId, errorListener,
                 crashed, lastEnd, direct, rt, up, chunkLog, dm, listing, analysis, connections, created>>

\* parseFrame of the frame just built
Decode ==
  /\ codec.pc = "encoded"
  /\ codec' = [codec EXCEPT !.pc = "decoded", !.parsed = parseFrame(codec.frame)]
  /\ UNCHANGED <<isConnected, chanVars, portVars, promise, nextId, errorListener,
                 crashed, lastEnd, direct, rt, up, chunkLog, dm, listing, analysis, connections, created>>

(***************************************************************************)
(* DeviceManager.parseDirectoryListing                                     *)
(***************************************************************************)
comma == 44
dot == 46
slash == 47

\* the characters String.prototype.trim removes, of those the inputs use
whitespace == {32}

\* String.prototype.trim
trim(s) ==
  LET kept == {k \in 1..Len(s) : s[k] \notin whitespace}
  IN IF kept = {} THEN <<>>
     ELSE LET first == CHOOSE k \in kept : \A j \in kept : k <= j
              last == CHOOSE k \in kept : \A j \in kept : k >= j
          IN SubSeq(s, first, last)

\* String.prototype.split with a one-character separator
RECURSIVE split(_, _)
split(s, sep) ==
  IF \A k \in 1..Len(s) : s[k] # sep THEN <<s>>
  ELSE LET k == CHOOSE i \in 1..Len(s) : s[i] = sep /\ \A j \in 1..(i - 1) : s[j] # sep
       IN <<SubSeq(s, 1, k - 1)>> \o split(SubSeq(s, k + 1, Len(s)), sep)

\* an isFile that takes a name with a leading '.' for a directory
isFileNotHidden(name) == includes(name, <<dot>>) /\ name[1] # dot

\* const isFile = name.includes('.')
isFile(name) == includes(name, <<dot>>)

\* basePath.endsWith('/') ? basePath + name : basePath + '/' + name
fullPath(basePath, name) ==
  IF basePath # <<>> /\ basePath[Len(basePath)] = slash
  THEN basePath \o name
  ELSE basePath \o <<slash>> \o name

\* what the map callback returns for an empty name
noEntry == [name |-> <<>>, type |-> "null", path |-> <<>>]

parseDirectoryListing(basePath, dirList) ==
  IF dirList = <<>> \/ trim(dirList) = <<>> THEN <<>>
  ELSE LET items == split(dirList, comma)
           entry(item) ==
             LET name == trim(item)
             IN IF name = <<>> THEN noEntry
                ELSE [name |-> name,
                      type |-> IF isFile(name) THEN "file" ELSE "directory",
                      path |-> fullPath(basePath, name)]
           mapped == [k \in 1..Len(items) |-> entry(items[k])]
       IN SelectSeq(mapped, LAMBDA e : e # noEntry)

\* "boot.py,main.py,lib"
bootMainLib == <<98, 111, 111, 116, 46, 112, 121, 44, 109, 97, 105, 110, 46, 112, 121,
                 44, 108, 105, 98>>

\* responses handed to parseDirectoryListing: every text of up to MaxListing
\* characters over "a", ".", "," and " ", and "boot.py,main.py,lib"
ListingChars == {97, dot, comma, 32}
DirLists == seqsOver(ListingChars, MaxListing) \cup {bootMainLib}

\* the directories listed: "/flash" and "/"
BasePaths == {flash, <<slash>>}

listingIdle == [pc |-> "idle", basePath |-> <<>>, dirList |-> <<>>, entries |-> <<>>]

\* listDirectory has the response text of its command
ListingCall ==
  /\ listing.pc = "idle"
  /\ \E basePath \in BasePaths, dirList \in DirLists :
       listing' = [listingIdle EXCEPT !.pc = "called", !.basePath = basePath,
                                      !.dirList = dirList]
  /\ UNCHANGED <<isConnected, chanVars, portVars, promise, nextId, errorListener,
                 crashed, lastEnd, direct, rt, up, chunkLog, dm, codec, analysis,
                 connections, created>>

\* return this.parseDirectoryListing(path, dirList)
ListingReturn ==
  /\ listing.pc = "called"
  /\ listing' = [listing EXCEPT !.pc = "returned",
                                !.entries = parseDirectoryListing(listing.basePath,
                                                                  listing.dirList)]
  /\ UNCHANGED <<isConnected, chanVars, portVars, promise, nextId, errorListener,
                 crashed, lastEnd, direct, rt, up, chunkLog, dm, codec, analysis,
                 connections, created>>

(***************************************************************************)
(* PythonAnalyzer.getExecutionOrder                                        *)
(***************************************************************************)
\* the file names of a project
Files == 1..MaxFiles

\* the dependencies arrays of a DependencyInfo: in import order, a file may be
\* named twice, and may name itself
DepLists == seqsOver(Files, MaxDeps)

\* a visit that follows the first dependency only
dependenciesFirstOnly(graph, node) ==
  IF node \in DOMAIN graph /\ graph[node] # <<>> THEN <<graph[node][1]>> ELSE <<>>

\* "const nodeInfo = graph[node]; if (nodeInfo) ... nodeInfo.dependencies"
dependenciesOf(graph, node) ==
  IF node \in DOMAIN graph THEN graph[node] ELSE <<>>

\* visit(node) and its for loop over the dependencies from index k on; st holds
\* the closure's order and visited
RECURSIVE visit(_, _, _), visitEach(_, _, _, _)
visit(graph, node, st) ==
  IF node \in st.visited THEN st
  ELSE LET marked == [st EXCEPT !.visited = @ \cup {node}]
           after == visitEach(graph, dependenciesOf(graph, node), 1, marked)
       IN [after EXCEPT !.order = Append(@, node)]

visitEach(graph, deps, k, st) ==
  IF k > Len(deps) THEN st
  ELSE visitEach(graph, deps, k + 1, visit(graph, deps[k], st))

getExecutionOrder(graph, entryFile) ==
  visit(graph, entryFile, [order |-> <<>>, visited |-> {}]).order

\* graph maps the analysed files to their dependencies arrays
analysisIdle == [pc |-> "idle", graph |-> <<>>, entryFile |-> 0, order |-> <<>>]

\* one entry of the graph: graph[filename] = {filename, dependencies, ...}
GraphEntry ==
  /\ analysis.pc = "idle"
  /\ \E f \in Files \ DOMAIN analysis.graph, deps \in DepLists :
       analysis' = [analysis EXCEPT
                      !.graph = [g \in DOMAIN analysis.graph \cup {f} |->
                                   IF g = f THEN deps ELSE analysis.graph[g]]]
  /\ UNCHANGED <<isConnected, chanVars, portVars, promise, nextId, errorListener,
                 crashed, lastEnd, direct, rt, up, chunkLog, dm, codec, listing,
                 connections, created>>

\* a caller evaluates getExecutionOrder(graph, entryFile)
GetExecutionOrder ==
  /\ analysis.pc = "idle"
  /\ \E entryFile \in Files :
       analysis' = [analysis EXCEPT !.pc = "returned", !.entryFile = entryFile,
                                    !.order = getExecutionOrder(analysis.graph,
                                                                entryFile)]
  /\ UNCHANGED <<isConnected, chanVars, portVars, promise, nextId, errorListener,
                 crashed, lastEnd, direct, rt, up, chunkLog, dm, codec, listing,
                 connections, created>>

(***************************************************************************)
(* M5StackClient: the registry of connections                              *)
(***************************************************************************)
Ports == {"COM1", "COM2"}

\* a Connection with its NodeSerialConnection and SerialPort
newConnection(p) ==
  [port |-> p, serial |-> "opening", isConnected |-> FALSE, closing |-> FALSE]

\* connect(p): the connected Connection of the registry, or a new one that starts
\* to open its port
ClientConnect ==
  /\ \E p \in Ports :
       IF connections[p] # 0 /\ created[connections[p]].isConnected
       THEN UNCHANGED <<connections, created>>
       ELSE /\ Len(created) < MaxConnects
            /\ connections' = [connections EXCEPT ![p] = 0]
            /\ created' = Append(created, newConnection(p))
  /\ UNCHANGED <<isConnected, chanVars, portVars, promise, nextId, errorListener,
                 crashed, lastEnd, direct, rt, up, chunkLog, dm, codec, listing, analysis>>

\* the port's 'open' event: onConnected, then connect's continuation registers
\* the Connection
PortOpened ==
  /\ \E c \in 1..Len(created) :
       /\ created[c].serial = "opening"
       /\ created' = [created EXCEPT ![c].serial = "open", ![c].isConnected = TRUE]
       /\ connections' = [connections EXCEPT ![created[c].port] = c]
  /\ UNCHANGED <<isConnected, chanVars, portVars, promise, nextId, errorListener,
                 crashed, lastEnd, direct, rt, up, chunkLog, dm, codec, listing, analysis>>

\* the port's 'error' event while opening: connect rejects
PortOpenFailed ==
  /\ \E c \in 1..Len(created) :
       /\ created[c].serial = "opening"
       /\ created' = [created EXCEPT ![c].serial = "failed"]
  /\ UNCHANGED <<isConnected, chanVars, portVars, promise, nextId, errorListener,
                 crashed, lastEnd, direct, rt, up, chunkLog, dm, codec, listing, analysis, connections>>

\* disconnect(p): nothing without a registered Connection; a Connection that is
\* not connected is removed at once, a connected one starts to close its port
ClientDisconnect ==
  /\ \E p \in Ports :
       LET c == connections[p]
       IN IF c = 0
          THEN UNCHANGED <<connections, created>>
          ELSE IF ~created[c].isConnected
          THEN /\ connections' = [connections EXCEPT ![p] = 0]
               /\ UNCHANGED created
          ELSE /\ created' = [created EXCEPT ![c].closing = TRUE]
               /\ UNCHANGED connections
  /\ UNCHANGED <<isConnected, chanVars, portVars, promise, nextId, errorListener,
                 crashed, lastEnd, direct, rt, up, chunkLog, dm, codec, listing, analysis>>

\* the port's 'close' event (after close(), or the device is unplugged):
\* onDisconnected, and the 'disconnect' listener removes the port's entry
PortClosed ==
  /\ \E c \in 1..Len(created) :
       /\ created[c].serial = "open"
       /\ created' = [created EXCEPT ![c].serial = "closed", ![c].isConnected = FALSE,
                                     ![c].closing = FALSE]
       /\ connections' = [connections EXCEPT ![created[c].port] = 0]
  /\ UNCHANGED <<isConnected, chanVars, portVars, promise, nextId, errorListener,
                 crashed, lastEnd, direct, rt, up, chunkLog, dm, codec, listing, analysis>>

Init ==
  /\ isConnected = FALSE
  /\ isBusy = FALSE
  /\ receivedBuffer = <<>>
  /\ currentResolve = 0
  /\ currentReject = 0
  /\ commandTimeout = 0
  /\ timers = {}
  /\ written = <<>>
  /\ pendingWrites = <<>>
  /\ inbound = <<>>
  /\ answered = {}
  /\ port = "new"
  /\ promise = <<>>
  /\ nextId = 1
  /\ lastBusy = "none"
  /\ errorListener \in BOOLEAN
  /\ crashed = FALSE
  /\ lastEnd = NoEnd
  /\ bufTags = {}
  /\ direct = 0
  /\ rt = rtIdle
  /\ up = upIdle
  /\ chunkLog = <<>>
  /\ dm = dmIdle
  /\ codec = codecIdle
  /\ listing = listingIdle
  /\ analysis = analysisIdle
  /\ connections = [p \in Ports |-> 0]
  /\ created = <<>>

\* the connection, the port and the device
Channel ==
  \/ Open
  \/ Close
  \/ PortError
  \/ WriteDone
  \/ TimerFire
  \/ DeviceRespond
  \/ Deliver

\* clients that call sendCommand
Next ==
  \/ Channel
  \/ DirectSend(MaxDirect)

Spec == Init /\ [][Next]_vars

\* The event loop of Node.js does not stop while a callback is due: an armed timer
\* fires, the callback of a write runs, bytes the port has received are delivered.
\* Nothing obliges the device to answer or the client to call.
LiveSpec == Init /\ [][Next]_vars /\ WF_vars(TimerFire \/ WriteDone \/ Deliver)

\* a client that calls sendCommandWithRetry beside one that calls sendCommand once
NextRetry ==
  \/ Channel
  \/ DirectSend(1)
  \/ RetryStart
  \/ RetryLoop
  \/ RetryResume
  \/ RetryDelay

RetrySpec == Init /\ [][NextRetry]_vars

\* a client that calls uploadFile beside one that calls sendCommand once
NextUpload ==
  \/ Channel
  \/ DirectSend(1)
  \/ RetryLoop
  \/ RetryResume
  \/ RetryDelay
  \/ UploadStart
  \/ UploadResume
  \/ UploadDelay

UploadSpec == Init /\ [][NextUpload]_vars

\* a client of DeviceManager that calls one operation
NextManager ==
  \/ Open
  \/ Close
  \/ PortError
  \/ WriteDone
  \/ TimerFire
  \/ DeviceRespondText
  \/ Deliver
  \/ ManagerCall
  \/ ManagerResume
  \/ ExecuteCall
  \/ ExecuteResume
  \/ WriteFile
  \/ RetryLoop
  \/ RetryResume
  \/ RetryDelay
  \/ UploadResume

ManagerSpec == Init /\ [][NextManager]_vars

\* one frame through the codec
NextFrame ==
  \/ Encode
  \/ Decode

FrameSpec == Init /\ [][NextFrame]_vars

\* one response text through parseDirectoryListing
NextListing ==
  \/ ListingCall
  \/ ListingReturn

ListingSpec == Init /\ [][NextListing]_vars

\* one client command whose response arrives split at any place
NextSplit ==
  \/ Open
  \/ Close
  \/ WriteDone
  \/ TimerFire
  \/ DeviceRespondFooter
  \/ DeliverSplit
  \/ DirectSend(1)

SplitSpec == Init /\ [][NextSplit]_vars

\* clients of one M5StackClient
NextClient ==
  \/ ClientConnect
  \/ PortOpened
  \/ PortOpenFailed
  \/ ClientDisconnect
  \/ PortClosed

ClientSpec == Init /\ [][NextClient]_vars

\* the analysis of a project's dependency graph
NextAnalysis ==
  \/ GraphEntry
  \/ GetExecutionOrder

AnalysisSpec == Init /\ [][NextAnalysis]_vars

(***************************************************************************)
(* Properties                                                              *)
(***************************************************************************)
Rejected(id, error) ==
  promise[id].state = "rejected" /\ promise[id].value = error

\* the channel ended command lastEnd.id on a frame made only of that command's
\* own response bytes
OwnFrame == lastEnd.id # 0 /\ lastEnd.frame # <<>> /\ lastEnd.tags = {lastEnd.id}

\* C1: a sendCommand call made while the connection is busy is rejected with
\* DeviceBusyError, hands nothing to the port and leaves the pending command's
\* resolver, rejecter, timer and accumulator as they were.
C1_BusyCallRejected ==
  [][(nextId' # nextId /\ isBusy) =>
       /\ promise'[nextId].state = "rejected"
       /\ promise'[nextId].value = "DeviceBusyError"
       /\ written' = written
       /\ pendingWrites' = pendingWrites
       /\ isBusy'
       /\ currentResolve' = currentResolve
       /\ currentReject' = currentReject
       /\ commandTimeout' = commandTimeout
       /\ timers' = timers
       /\ receivedBuffer' = receivedBuffer]_vars

\* C1 witness: a call was rejected as busy while another command is pending
C1_Witness ==
  \E id \in 1..Len(promise) :
    /\ Rejected(id, "DeviceBusyError")
    /\ isBusy
    /\ currentResolve \notin {0, id}
    /\ commandTimeout \in timers

\* C2: once the channel has taken a complete status-0 frame for the pending command,
\* that command's promise is resolved, its resolver was called exactly once and its
\* timer is no longer armed.
C2_ResolvedExactlyOnce ==
  (OwnFrame /\ lastEnd.how = "success" /\ lastEnd.crcOk) =>
    /\ promise[lastEnd.id].state = "resolved"
    /\ promise[lastEnd.id].calls = 1
    /\ lastEnd.id \notin timers

\* C3: once the timer of a pending command has fired, the command's promise is
\* rejected with TimeoutError by exactly one call of its rejecter.
C3_TimeoutRejectsOnce ==
  (lastEnd.how = "timeout") =>
    /\ Rejected(lastEnd.id, "TimeoutError")
    /\ promise[lastEnd.id].calls = 1

\* C4: the connection is busy exactly when a resolver is stored, the resolver and
\* the rejecter stored belong to the same single command, and at most one command
\* timer is armed, the one the connection holds.
C4_BusyIffPending ==
  /\ isBusy <=> currentResolve # 0
  /\ currentReject = currentResolve
  /\ timers \subseteq {commandTimeout}
  /\ isBusy <=> commandTimeout # 0

\* C4 witness: a command is pending after an earlier one was ended
C4_Witness == isBusy /\ currentResolve # 0 /\ lastEnd.id # 0

\* C5: a response frame whose embedded CRC differs from the CRC of its payload is
\* not taken as a success: the channel fails the pending command and rejects its
\* promise.
C5_BadCrcRejected ==
  (OwnFrame /\ ~lastEnd.crcOk) =>
    /\ lastEnd.how = "responseError"
    /\ promise[lastEnd.id].state = "rejected"
    /\ ~isBusy

\* C6: when command A has timed out and command B was sent after it, the frame on
\* which the channel ends B holds no byte of the response to A.
C6_LateBytesDiscarded ==
  (lastEnd.id # 0 /\ lastEnd.frame # <<>> /\ lastEnd.prevHow = "timeout")
    => lastEnd.prevId \notin lastEnd.tags

C8_AtMostMaxCalls == rt.pc # "idle" => rt.calls <= rt.max

\* C8 amended: one call of sendCommandWithRetry(cmd, maxRetries) calls sendCommand
\* at most maxRetries + 1 times (4 by default).
C8_AtMostMaxRetriesPlusOne == rt.pc # "idle" => rt.calls <= rt.max + 1

\* C8 witness: a default call has made all its 4 sendCommand calls and thrown
C8_Witness ==
  /\ rt.pc = "threw"
  /\ rt.max = defaultMaxRetries
  /\ rt.calls = defaultMaxRetries + 1

RECURSIVE concat(_)
concat(chunks) ==
  IF chunks = <<>> THEN <<>> ELSE Head(chunks).data \o concat(Tail(chunks))

\* the channel has ended the command of the latest generated chunk on a clean
\* "done" response, and no continuation is waiting to run
LatestChunkAcked ==
  /\ up.pc = "wait"
  /\ rt.owner = "upload"
  /\ rt.pc = "await"
  /\ ~Microtask
  /\ OwnFrame
  /\ lastEnd.id = rt.id
  /\ lastEnd.frame = RespDone

\* C9: for a content longer than the chunk size, once every chunk generated so far
\* is acknowledged, uploadFile has generated ceil(len/C) chunks, their data in order
\* is the content, chunk 0 carries flag 1 and the later chunks flag 0.
C9_ChunksReconstruct ==
  (up.multi /\ LatestChunkAcked) =>
    /\ Len(chunkLog) = ceilDiv(Len(up.content), up.chunkSize)
    /\ concat(chunkLog) = up.content
    /\ \A k \in 1..Len(chunkLog) :
         chunkLog[k].flag = (IF k = 1 THEN 1 ELSE 0)

\* a chunk command whose sendCommand promise was resolved with a "done" response
AckedWrite(w) ==
  /\ promise[w.id].state = "resolved"
  /\ includes(promise[w.id].value, done)

\* C10: a frame of chunk i+1 is handed to the port only after a frame of chunk i
\* was acknowledged with "done", and no two different chunks of the transfer have
\* unsettled commands at the same time.
C10_ChunksSequential ==
  /\ \A k \in 1..Len(written) :
       written[k].chunk >= 1 =>
         \E j \in 1..(k - 1) :
           written[j].chunk = written[k].chunk - 1 /\ AckedWrite(written[j])
  /\ \A j, k \in 1..Len(written) :
       (written[j].chunk >= 0 /\ written[k].chunk >= 0
          /\ written[j].chunk # written[k].chunk)
         => ~(promise[written[j].id].state = "pending"
                /\ promise[written[k].id].state = "pending")

\* C10 witness: chunk 0 of a multi-chunk transfer is written and pending, chunks
\* remain, and none of them has been written
C10_Witness ==
  /\ up.multi
  /\ up.pc = "wait"
  /\ up.i + 1 < up.totalChunks
  /\ \E k \in 1..Len(written) :
       written[k].chunk = 0 /\ currentResolve = written[k].id
  /\ \A k \in 1..Len(written) : written[k].chunk < 1

\* C11: when a chunk of a multi-chunk upload has failed with its retry budget used
\* up, uploadFile ends with a CommunicationError that names the file and the failing
\* chunk (counted from 1), no frame of a later chunk was or will be handed to the
\* port, and the ended uploadFile sends no further command.
C11_FailedChunkAborts ==
  [][/\ (up'.pc = "failed" /\ up'.multi) =>
          /\ up'.error = "CommunicationError"
          /\ up'.message.file = up'.filename
          /\ up'.message.chunk = up'.i + 1
          /\ up'.attempt = up'.retryAttempts
          /\ \A k \in 1..Len(written') : written'[k].chunk <= up'.i
     /\ (up.pc = "failed") =>
          /\ up' = up
          /\ rt' = rt
          /\ chunkLog' = chunkLog
          /\ (written' # written => written'[Len(written')].chunk = -1)]_vars

\* C11 witness: a multi-chunk upload has failed on a chunk whose frames reached the
\* port, after the last attempt of its budget
C11_Witness ==
  /\ up.pc = "failed"
  /\ up.multi
  /\ up.attempt = up.retryAttempts
  /\ up.message.chunk = up.i + 1
  /\ \E k \in 1..Len(written) : written[k].chunk = up.i

\* C12: no frame of an upload is handed to the port when validateFilename rejects
\* the upload's file name (longer than 28 characters, or a character outside the
\* allowed set).
C12_InvalidNameNotSent ==
  (up.pc # "idle" /\ ~validateFilename(up.filename)) =>
    \A k \in 1..Len(written) : written[k].chunk < 0

\* C13: once every chunk generated so far is acknowledged, onProgress has been
\* called once per acknowledged chunk, the reports' bytesTransferred and chunkIndex
\* increase strictly, and the latest report carries the bytes and the number of the
\* chunks acknowledged.
C13_ProgressPerAck ==
  LatestChunkAcked =>
    /\ Len(up.progress) = up.i + 1
    /\ \A k \in 1..(Len(up.progress) - 1) :
         /\ up.progress[k].bytesTransferred < up.progress[k + 1].bytesTransferred
         /\ up.progress[k].chunkIndex < up.progress[k + 1].chunkIndex
    /\ up.progress[Len(up.progress)].chunkIndex = up.i + 1
    /\ up.progress[Len(up.progress)].bytesTransferred
         = min((up.i + 1) * up.chunkSize, Len(up.content))

\* parseFrame gave back the code and the data that went into the frame
RoundTrip ==
  /\ codec.parsed.kind = "frame"
  /\ codec.parsed.command = codec.code
  /\ codec.parsed.data = codec.data

\* C14 as stated: for every command code and every data of length < 256,
\* parseFrame(createFrame(createCommandBuffer(code, data))) has command = code and
\* data = data.
C14_RoundTripBelow256 ==
  (codec.pc = "decoded" /\ Len(codec.data) < 256) => RoundTrip

\* C14 amended: the round trip holds for every command code and every data of
\* length < 255, that is a command buffer (code + data) of at most 255 bytes.
C14_RoundTripBelow255 ==
  (codec.pc = "decoded" /\ Len(codec.data) < 255) => RoundTrip

\* C14 witness: data of 254 bytes came back from the round trip
C14_Witness ==
  /\ codec.pc = "decoded"
  /\ Len(codec.data) = 254
  /\ RoundTrip

\* the payload (command code + data) of a frame as it lies between the length byte
\* and the CRC
payloadOf(frame) == slice(frame, 4, Len(frame) - 5)

\* C15: every frame handed to the port has a length byte equal to the number of
\* its payload bytes and a CRC field equal to the CRC16 of the payload, high byte
\* first.
C15_WrittenFramesWellFormed ==
  \A k \in 1..Len(written) :
    LET frame == written[k].frame
        crc == calculateCrc(payloadOf(frame))
    IN /\ frame[4] = Len(payloadOf(frame))
       /\ frame[Len(frame) - 4] = crc \div 256
       /\ frame[Len(frame) - 3] = crc % 256

\* CRC-16 with the reflected polynomial 0xA001, bit by bit
RECURSIVE crcBits(_, _)
crcBits(crc, n) ==
  IF n = 0 THEN crc
  ELSE crcBits(IF crc % 2 = 1 THEN Xor(crc \div 2, 40961) ELSE crc \div 2, n - 1)

RECURSIVE crcReference(_, _, _, _)
crcReference(data, lo, hi, crc) ==
  IF lo > hi THEN crc
  ELSE IF lo = hi THEN crcBits(Xor(crc, data[lo]), 8)
  ELSE LET mid == (lo + hi) \div 2
           left == crcReference(data, lo, mid, crc)
       IN IF left >= 0 THEN crcReference(data, mid + 1, hi, left) ELSE crc

\* C16: calculateCrc is the CRC16 of the 16-entry table started at 0xFFFF: every
\* table entry is the CRC of its nibble, the value equals the bitwise CRC of the
\* data, is 0xFFFF for empty data, 0x4B37 for "123456789", and lies in 0..0xFFFF.
C16_CrcIsReference ==
  (codec.pc # "idle") =>
    /\ \A n \in 0..15 : CRC_TABLE[n + 1] = crcBits(n, 4)
    /\ codec.crc = crcReference(codec.data, 1, Len(codec.data), 65535)
    /\ codec.crc \in 0..65535
    /\ (codec.data = <<>> => codec.crc = 65535)
    /\ (codec.data = digits => codec.crc = 19255)

\* C16 witness: the CRC of "123456789" has been computed
C16_Witness ==
  /\ codec.pc = "encoded"
  /\ codec.data = digits
  /\ codec.crc = 19255

C18_OneCommandPerOperation ==
  [][/\ (nextId' # nextId) =>
          \/ /\ dm.pc = "idle"
             /\ dm'.pc = "await"
             /\ dm'.op \in SingleOps
             /\ dm'.calls = 1
             /\ dm'.id = nextId
          \/ /\ dm.op = "writeFile"
             /\ dm' = dm
             /\ up.pc = "wait"
             /\ rt.owner = "upload"
             /\ rt.pc = "loop"
          \/ dm'.op \in ExecOps
     /\ (dm.op \in SingleOps /\ dm.pc \in {"await", "returned", "threw"}) =>
          (nextId' = nextId /\ dm'.calls = 1 /\ dm'.op = dm.op)
     /\ (dm.op = "writeFile") => dm'.calls = 0]_vars

\* C18 witness: a single-command operation has ended after its one sendCommand call
C18_Witness ==
  /\ dm.pc \in {"returned", "threw"}
  /\ dm.op \in SingleOps
  /\ dm.calls = 1
  /\ Len(promise) = 1

\* the connection has ended the operation's command and no continuation is waiting
ManagerCommandEnded ==
  /\ dm.id # 0
  /\ lastEnd.id = dm.id
  /\ ~Microtask
  /\ ~crashed

\* the text of the response frame the connection ended on
responseText == extractResponseData(lastEnd.frame).data

\* C19: once the command of executeCode has ended (response taken, error response,
\* or timeout), executeCode has returned, with exitCode 0 exactly when the response
\* text contains "done" and with exitCode 1 otherwise.
C19_ExitCodeFollowsMarker ==
  (/\ dm.op = "executeCode"
   /\ ManagerCommandEnded
   /\ lastEnd.how \in {"success", "responseError", "timeout"}) =>
    /\ dm.pc = "returned"
    /\ dm.exitCode = IF lastEnd.how = "success" /\ includes(responseText, done)
                     THEN 0 ELSE 1

\* C20: deleteFile and setWifiConfig return only on a response whose text is
\* exactly "done", and a response with any other text makes them throw
\* CommunicationError.
C20_ExactDoneOrError ==
  (dm.op \in {"deleteFile", "setWifiConfig"}) =>
    /\ (dm.pc = "returned") =>
         (lastEnd.id = dm.id /\ lastEnd.how = "success" /\ responseText = done)
    /\ (ManagerCommandEnded /\ lastEnd.how = "success" /\ responseText # done) =>
         (dm.pc = "threw" /\ dm.error = "CommunicationError")

\* the position of the n-th ',' of text s, 0 for n = 0 and Len(s) + 1 past the last
cutAt(s, n) ==
  LET commas == {i \in 1..Len(s) : s[i] = 44}
  IN IF n = 0 THEN 0
     ELSE IF n > Cardinality(commas) THEN Len(s) + 1
     ELSE CHOOSE i \in commas : Cardinality({j \in commas : j <= i}) = n

\* the n-th comma-separated name of text s, without the blanks around it
nameAt(s, n) ==
  LET from == cutAt(s, n - 1)
      to == cutAt(s, n)
  IN trim([k \in 1..(to - from - 1) |-> s[from + k]])

\* the numbers of the non-empty names of text s
namedIn(s) ==
  {n \in 1..(Cardinality({i \in 1..Len(s) : s[i] = 44}) + 1) : nameAt(s, n) # <<>>}

C22_IdleAfterEveryEnd ==
  [][/\ (lastEnd' # lastEnd) =>
          /\ ~isBusy'
          /\ currentResolve' = 0
          /\ currentReject' = 0
          /\ commandTimeout' = 0
          /\ timers' = {}
          /\ receivedBuffer' = <<>>
     /\ \A id \in 1..Len(promise') : promise'[id].calls <= 1]_vars

\* C22 witness: one command was ended by a response, the next one by a disconnect,
\* and the channel is idle
C22_Witness ==
  /\ lastEnd.how = "disconnect"
  /\ lastEnd.prevHow = "success"
  /\ ~isBusy
  /\ currentResolve = 0
  /\ timers = {}
  /\ receivedBuffer = <<>>

\* C23: once the channel has ended the command of sendCommandWithRetry on a
\* response that carries a non-zero status, and no continuation is waiting to run,
\* sendCommandWithRetry has thrown to its caller, that command being its last
\* sendCommand call.
C23_ResponseErrorPassedOn ==
  (/\ rt.pc # "idle"
   /\ lastEnd.id = rt.id
   /\ lastEnd.how = "responseError"
   /\ ~crashed
   /\ ~Microtask) => rt.pc = "threw"

\* C24: once the channel has taken a complete frame with a non-zero status byte for
\* the pending command, that command's promise is rejected, not resolved, and the
\* channel is idle.
C24_StatusRejects ==
  (OwnFrame /\ lastEnd.how = "responseError" /\ statusByte(lastEnd.frame) # 0) =>
    /\ promise[lastEnd.id].state = "rejected"
    /\ (isBusy => currentResolve # lastEnd.id)

\* C27: the error sendCommandWithRetry throws when it gives up wraps the error of
\* its last sendCommand call and carries the number of sendCommand calls made.
C27_FinalErrorWrapsLast ==
  (rt.pc = "threw") =>
    /\ rt.thrown.wraps = rt.error
    /\ rt.thrown.attempts = rt.calls

\* C25: a timer that times a command out was armed by the sendCommand call of that
\* very command, and no other timer is armed then: every armed timer belongs to the
\* pending command.  Each accepted sendCommand arms a timer of its own, with the
\* command's timeout (10000 for an upload chunk) or else the connection's default
\* (5000).
C25_TimerOfItsCommand ==
  [][/\ (lastEnd' # lastEnd /\ lastEnd'.how = "timeout") => timers = {lastEnd'.id}
     /\ \A t \in timers' : t = currentResolve' /\ t = commandTimeout'
     /\ (Len(written') = Len(written) + 1) =>
          LET w == written'[Len(written')]
          IN /\ w.id \notin timers
             /\ timers' = {w.id}
             /\ currentResolve' = w.id
             /\ w.timeout = IF w.chunk >= 0 THEN 10000 ELSE 5000]_vars

\* C25 witness: a command sent with the default timeout was timed out, and a chunk
\* command sent after it is pending with its own timer of 10000
C25_Witness ==
  /\ lastEnd.how = "timeout"
  /\ isBusy
  /\ currentResolve # lastEnd.id
  /\ timers = {currentResolve}
  /\ \E k \in 1..Len(written) :
       /\ written[k].id = lastEnd.id
       /\ written[k].timeout = defaultTimeout
  /\ written[Len(written)].id = currentResolve
  /\ written[Len(written)].timeout = chunkTimeout

\* the frames of upload chunks handed to the port so far
chunkFrames == {k \in 1..Len(written) : written[k].chunk >= 0}

\* what uploadFile does with a content that fits one chunk: it has generated one
\* chunk, and every chunk frame handed to the port carries the command code, the
\* file name, a NUL, the flag of overwrite and the whole content
SingleChunkSent ==
  /\ Len(chunkLog) = 1
  /\ chunkLog[1].data = up.content
  /\ chunkLog[1].flag = (IF up.overwrite THEN 1 ELSE 0)
  /\ \A k \in chunkFrames :
       payloadOf(written[k].frame)
         = <<DOWNLOAD_FILE>> \o up.filename \o <<0, IF up.overwrite THEN 1 ELSE 0>>
             \o up.content

\* C26 as stated: for a content no longer than the chunk size uploadFile hands
\* exactly one chunk frame to the port (none before, one from its first sendCommand
\* on), carrying the whole content, with flag 1 if overwrite and 0 if not.
C26_ExactlyOneChunkFrame ==
  (up.pc # "idle" /\ ~up.multi) =>
    /\ SingleChunkSent
    /\ Cardinality(chunkFrames) <= 1

\* C26 amended: for a content no longer than the chunk size uploadFile generates
\* exactly one chunk, carrying the whole content, with flag 1 if overwrite and 0 if
\* not; it hands the frame of that chunk to the port once per sendCommand attempt
\* of sendCommandWithRetry(command, 2), at most 3 times.
C26_OneChunkAtMostThreeFrames ==
  (up.pc # "idle" /\ ~up.multi) =>
    /\ SingleChunkSent
    /\ Cardinality(chunkFrames) <= chunkMaxRetries + 1
    /\ (up.pc = "wait" => Cardinality(chunkFrames) <= rt.calls)

\* C26 witness: a one-chunk upload without overwrite wrote its frame, with flag 0,
\* a second time after a failed write
C26_Witness ==
  /\ up.pc # "idle"
  /\ ~up.multi
  /\ ~up.overwrite
  /\ Cardinality(chunkFrames) = 2
  /\ chunkLog[1].flag = 0

\* the EXEC frames handed to the port so far
execFrames == {k \in 1..Len(written) : written[k].frame[5] = EXEC}

\* C28: executeFile and executeProject hand an EXEC frame to the port only after
\* the connection has taken a response to their read command, and never while that
\* command is pending; once the read command has ended on a response, the exec
\* command has been dispatched; once it has ended without one (error response or
\* timeout), they have thrown FileNotFoundError and no EXEC frame was written.
C28_ReadThenExec ==
  (dm.op \in ExecOps) =>
    /\ (execFrames # {}) =>
         /\ promise[1].state = "resolved"
         /\ \A k \in execFrames : written[k].id > 1
    /\ (dm.pc = "read" /\ isBusy) => execFrames = {}
    /\ (ManagerCommandEnded /\ lastEnd.how = "success") => dm.pc \in {"exec", "returned"}
    /\ (ManagerCommandEnded /\ lastEnd.how \in {"responseError", "timeout"}) =>
         /\ dm.pc = "threw"
         /\ dm.error = "FileNotFoundError"
         /\ execFrames = {}

\* C29: isOnline never throws; it returns true only on a response whose text is
\* exactly "done"; and once its command has ended (response, error response or
\* timeout) or was refused, isOnline has returned: true on the text "done", false
\* otherwise.
C29_OnlineNeverRaises ==
  (dm.op = "isOnline") =>
    /\ dm.pc # "threw"
    /\ (dm.pc = "returned" /\ dm.ret = "true") =>
         (lastEnd.id = dm.id /\ lastEnd.how = "success" /\ responseText = done)
    /\ (ManagerCommandEnded /\ lastEnd.how \in {"success", "responseError", "timeout"}) =>
         /\ dm.pc = "returned"
         /\ dm.ret = IF lastEnd.how = "success" /\ responseText = done
                     THEN "true" ELSE "false"
    /\ (dm.id # 0 /\ promise[dm.id].state = "rejected" /\ ~Microtask) =>
         (dm.pc = "returned" /\ dm.ret = "false")

\* sendCommand accepted the call that made promise id: its frame went to the port
Accepted(id) == \E k \in 1..Len(written) : written[k].id = id

\* promise id is resolved or rejected
Settled(id) == id <= Len(promise) /\ promise[id].state # "pending"

\* C30: the promise of every accepted sendCommand call is eventually settled,
\* resolved or rejected (unless an uncaught exception has ended the process).
C30_AcceptedEventuallySettled ==
  \A id \in 1..MaxDirect :
    [](Accepted(id) => <>(Settled(id) \/ crashed))

\* the file of a device that truncates on a chunk frame with flag 1 and appends on
\* one with flag 0, after the first n frames handed to the port; a frame whose
\* write was rejected as failed did not reach the device
RECURSIVE deviceFile(_)
deviceFile(n) ==
  IF n = 0 THEN <<>>
  ELSE LET w == written[n]
           before == deviceFile(n - 1)
       IN IF w.chunk < 0 \/ promise[w.id].state = "rejected" THEN before
          ELSE IF chunkLog[w.chunk + 1].flag = 1 THEN chunkLog[w.chunk + 1].data
          ELSE before \o chunkLog[w.chunk + 1].data

C32_WriteEndsOwnCommandOnly ==
  [][(/\ pendingWrites # <<>>
      /\ pendingWrites' = Tail(pendingWrites)
      /\ currentResolve # 0
      /\ Head(pendingWrites) # currentResolve) =>
       /\ isBusy'
       /\ currentResolve' = currentResolve
       /\ currentReject' = currentReject
       /\ commandTimeout' = commandTimeout
       /\ timers' = timers]_vars

\* C33: a command that ends on a status-0 response ends on the whole frame the
\* device sent, whatever the 'data' events it came in, so that the data taken from
\* it is the data of the response.
C33_WholeFrameTaken ==
  (OwnFrame /\ lastEnd.how = "success") =>
    /\ lastEnd.frame \in SplitResponses
    /\ responseText \in {done, footerBytes \o <<120>>}

\* the port is open and no callback of it is outstanding: no write in flight, no
\* bytes on the line
Quiescent == isConnected /\ pendingWrites = <<>> /\ inbound = <<>> /\ ~crashed

\* C34: whenever the channel is quiescent, the latest 'busy' event emitted, if any,
\* carries the value of the busy flag.
C34_BusyEventMatchesFlag ==
  (Quiescent /\ lastBusy # "none") => ((lastBusy = "true") <=> isBusy)

\* C35: a 'data' event that arrives while no command is pending emits no 'busy'
\* event and no 'error' event, and the next accepted command starts with an empty
\* accumulator.
C35_IdleBytesIgnored ==
  [][/\ (/\ currentResolve = 0
         /\ isConnected /\ isConnected'
         /\ inbound # <<>>
         /\ inbound' # inbound
         /\ answered' = answered) =>
          (lastBusy' = lastBusy /\ crashed' = crashed)
     /\ (Len(written') = Len(written) + 1) => receivedBuffer' = <<>>]_vars

framesOfChunk(i) == {k \in 1..Len(written) : written[k].chunk = i}

\* C37 as stated: in a multi-chunk uploadFile at most 1 + retryAttempts frames of
\* one chunk are handed to the port.
C37_FramesPerChunkAtMostAttempts ==
  (up.pc # "idle" /\ up.multi) =>
    \A i \in 0..(up.totalChunks - 1) :
      Cardinality(framesOfChunk(i)) <= 1 + up.retryAttempts

\* C37 amended: in a multi-chunk uploadFile every one of the 1 + retryAttempts
\* attempts of a chunk is a sendCommandWithRetry(command, 2) of up to 3 sendCommand
\* calls, so at most 3 * (1 + retryAttempts) frames of one chunk are handed to the
\* port; frames of a chunk are handed over only while it is the current chunk, and
\* none of a later chunk before.
C37_FramesPerChunkAtMostProduct ==
  (up.pc # "idle" /\ up.multi) =>
    /\ \A i \in 0..(up.totalChunks - 1) :
         /\ Cardinality(framesOfChunk(i)) <= (chunkMaxRetries + 1) * (1 + up.retryAttempts)
         /\ i > up.i => framesOfChunk(i) = {}
    /\ (up.pc = "wait") =>
         Cardinality(framesOfChunk(up.i)) <= (chunkMaxRetries + 1) * up.attempt + rt.calls

\* C37 witness: a multi-chunk upload handed the frame of one chunk to the port
\* 3 * (1 + retryAttempts) times, every write having failed
C37_Witness ==
  /\ up.pc # "idle"
  /\ up.multi
  /\ \E i \in 0..(up.totalChunks - 1) :
       Cardinality(framesOfChunk(i)) = (chunkMaxRetries + 1) * (1 + up.retryAttempts)

\* the files reachable from the files of S, those included
RECURSIVE reach(_, _)
reach(graph, S) ==
  LET T == S \cup {d \in Files :
                     \E f \in S \cap DOMAIN graph :
                       \E k \in 1..Len(graph[f]) : graph[f][k] = d}
  IN IF T = S THEN S ELSE reach(graph, T)

\* the direct dependencies of file f
depsOf(graph, f) ==
  IF f \in DOMAIN graph THEN {graph[f][k] : k \in 1..Len(graph[f])} ELSE {}

\* no file depends on itself, directly or through other files
acyclic(graph) == \A f \in Files : f \notin reach(graph, depsOf(graph, f))

\* C38: getExecutionOrder(graph, entry) returns, on cyclic graphs too, and its order
\* holds every file reachable from entry exactly once and no other file; when the
\* graph is acyclic every file stands after all of its dependencies.
C38_OrderIsReachableOnceDepsFirst ==
  (analysis.pc = "returned") =>
    LET graph == analysis.graph
        order == analysis.order
    IN /\ {order[k] : k \in 1..Len(order)} = reach(graph, {analysis.entryFile})
       /\ \A j, k \in 1..Len(order) : order[j] = order[k] => j = k
       /\ acyclic(graph) =>
            \A k \in 1..Len(order) :
              \A d \in depsOf(graph, order[k]) :
                \E j \in 1..(k - 1) : order[j] = d

\* C38 witness: on a graph where every file lies on a cycle the order returned
\* holds all the files
C38_Witness ==
  /\ analysis.pc = "returned"
  /\ ~acyclic(analysis.graph)
  /\ \A f \in Files : f \in reach(analysis.graph, depsOf(analysis.graph, f))
  /\ Len(analysis.order) = MaxFiles

\* an acyclic graph whose entry file has two dependencies, one depending on the
\* other, ordered dependencies first
C38_WitnessAcyclic ==
  /\ analysis.pc = "returned"
  /\ acyclic(analysis.graph)
  /\ Len(analysis.order) = MaxFiles
  /\ Len(dependenciesOf(analysis.graph, analysis.entryFile)) = 2

====
